---- MODULE Spec2Model ----
(***************************************************************************)
(* State-machine model of msticpy's LogAnalytics uploader                  *)
(* (msticpy/data/uploaders/loganalytics_uploader.py, class LAUploader).    *)
(*                                                                         *)
(* Strings are modelled as sequences of one-character strings so that      *)
(* re.sub, str.split and base64 decoding can be computed character by      *)
(* character.  A DataFrame row is modelled by its position and by the      *)
(* length of the JSON text of row[1].astype(str).to_dict().                *)
(***************************************************************************)
EXTENDS Integers, Sequences, FiniteSets, TLC

VARIABLES
    os_sep,            \* separator str(Path) uses on this platform
    workspace_secret,  \* self.workspace_secret
    pc,                \* position of the running upload operation
    mode,              \* which entry point was called: "df", "file", "folder"
    table_arg,         \* the table_name argument of that call
    table_name,        \* the running method's local table_name
    t_name,            \* upload_folder's t_name = bool(table_name)
    delim,             \* delim argument
    folder,            \* names of the entries of folder_path, in listing order
    input_files,       \* upload_folder's input_files (paths as segment lists)
    fileIdx,           \* number of loop iterations of upload_folder completed
    path,              \* path of the file being uploaded
    data,              \* the rows data.iterrows() has yielded to upload_df's loop
    events,            \* upload_df's events list
    unit,              \* number of upload_df invocations started
    posts,             \* log of the _post_data calls, in call order
    last,              \* what the last _post_data call met
    error,             \* the exception that left the operation
    progress,          \* the tqdm progress bar of upload_folder
    nread,             \* rows yielded so far in the whole operation
    sig_calls          \* the last two direct calls of _build_signature

vars == <<os_sep, workspace_secret, pc, mode, table_arg, table_name, t_name,
          delim, folder, input_files, fileIdx, path, data, events, unit,
          posts, last, error, progress, nread, sig_calls>>

----------------------------------------------------------------------------
(* Bounds of the model *)

\* total number of rows read by one upload operation
MaxRecords == 3
\* number of entries of an uploaded folder
MaxFiles == 2

----------------------------------------------------------------------------
(* Program constants *)

\* the split threshold of upload_df
Ceiling == 26214400
\* sys.getsizeof of an empty ASCII str in CPython (object header + NUL)
StrOverhead == 49

----------------------------------------------------------------------------
(* Characters and strings *)

UpperCase == {"A","B","C","D","E","F","G","H","I","J","K","L","M",
              "N","O","P","Q","R","S","T","U","V","W","X","Y","Z"}
LowerCase == {"a","b","c","d","e","f","g","h","i","j","k","l","m",
              "n","o","p","q","r","s","t","u","v","w","x","y","z"}
Digits == {"0","1","2","3","4","5","6","7","8","9"}

Str_hosts_csv == <<"h","o","s","t","s",".","c","s","v">>
Str_hosts == <<"h","o","s","t","s">>
Str_a_b_csv == <<"a","_","1",".","b",".","c","s","v">>
Str_notes_txt == <<"n","o","t","e","s",".","t","x","t">>
Str_data == <<"d","a","t","a">>
Str_v1_2 == <<"v","1",".","2">>
Str_AllLogs == <<"A","l","l","L","o","g","s">>
Str_My_Table_1 == <<"M","y","-","T","a","b","l","e","!","1">>
Str_MyTable1 == <<"M","y","T","a","b","l","e","1">>
Str_csv == <<"c","s","v">>
Str_POST == <<"P","O","S","T">>
Str_PUT == <<"P","U","T">>
Str_application_json ==
    <<"a","p","p","l","i","c","a","t","i","o","n","/","j","s","o","n">>
Str_text_csv == <<"t","e","x","t","/","c","s","v">>
Str_api_logs == <<"/","a","p","i","/","l","o","g","s">>
Str_api_query == <<"/","a","p","i","/","q","u","e","r","y">>
Str_x_ms_date == <<"x","-","m","s","-","d","a","t","e",":">>
Str_date_1 ==
    <<"M","o","n",","," ","0","2"," ","N","o","v"," ","2","0","2","6"," ",
      "0","1",":","0","0",":","0","0"," ","G","M","T">>
Str_date_2 ==
    <<"M","o","n",","," ","0","2"," ","N","o","v"," ","2","0","2","6"," ",
      "0","1",":","0","0",":","0","1"," ","G","M","T">>
Str_workspace == <<"w","s","-","0","0","0","1">>

RECURSIVE Join(_, _)
Join(segs, sep) ==
    IF Len(segs) = 0 THEN <<>>
    ELSE IF Len(segs) = 1 THEN segs[1]
    ELSE segs[1] \o <<sep>> \o Join(Tail(segs), sep)

\* str.split(sep) for a one-character separator: the list of pieces
RECURSIVE Split(_, _)
Split(s, sep) ==
    IF \A i \in 1..Len(s) : s[i] # sep THEN <<s>>
    ELSE LET k == CHOOSE i \in 1..Len(s) :
                      s[i] = sep /\ \A j \in 1..(i - 1) : s[j] # sep
         IN  <<SubSeq(s, 1, k - 1)>> \o Split(SubSeq(s, k + 1, Len(s)), sep)

----------------------------------------------------------------------------
(* Inputs the operations are called with *)

\* JSON text lengths of one row's dict: 10 MiB, the length that puts a one-row
\* list ("[" + row + "]" plus the str overhead) exactly at the threshold, and
\* a row that alone is longer than the threshold
RecSizes == {10485760, Ceiling - StrOverhead - 2, Ceiling + 1}

\* table_name arguments; <<>> stands for None / ""
TableNames == {<<>>, Str_AllLogs, Str_My_Table_1}

\* table_name arguments of upload_folder
FolderTableNames == {<<>>, Str_AllLogs}

Delims == {",", "\t"}

\* file_path arguments of upload_file, as path segments
FilePaths == {<<Str_hosts_csv>>, <<Str_data, Str_hosts_csv>>,
              <<Str_v1_2, Str_hosts_csv>>, <<Str_data, Str_a_b_csv>>}

\* folder_path arguments of upload_folder, as path segments
Folders == {<<Str_data>>}

\* names a folder entry can have, in the order the file system lists them
DirNames == <<Str_notes_txt, Str_hosts_csv, Str_a_b_csv>>

\* the entries of a folder: at most MaxFiles of DirNames
Listings ==
    {SelectSeq(DirNames, LAMBDA n : n \in chosen) :
        chosen \in {c \in SUBSET {DirNames[i] : i \in 1..Len(DirNames)} :
                       Cardinality(c) <= MaxFiles}}

\* workspace_secret values: well-formed base64, and one whose padding is
\* missing
Secrets == {<<"Q","U","I","=">>, <<"Q","U","I">>}

\* workspace_secret values that are not well-formed base64: a character
\* outside the base64 alphabet, and the padding missing
MalformedSecrets == {<<"Q","!","U","I","=">>, <<"Q","U","I">>}

\* arguments of direct _build_signature calls
SigDates == {Str_date_1, Str_date_2}
SigLengths == {1, 10}
SigMethods == {Str_POST, Str_PUT}
SigContentTypes == {Str_application_json, Str_text_csv}
SigResources == {Str_api_logs, Str_api_query}

StatusCodes == {199, 200, 299, 300, 403}

\* what requests.post meets: no connection, or a response with a status code
Responses ==
    {[connected |-> FALSE, status |-> 0]}
        \cup {[connected |-> TRUE, status |-> s] : s \in StatusCodes}

----------------------------------------------------------------------------
(* Pure functions of the uploader *)

IsWordChar(c) == c \in UpperCase \cup LowerCase \cup Digits \cup {"_"}

\* s without its leading run of characters matching [^A-Za-z0-9_]
RECURSIVE DropRun(_)
DropRun(s) ==
    IF s = <<>> \/ IsWordChar(Head(s)) THEN s ELSE DropRun(Tail(s))

\* Variant: only the first run is removed (re.sub with count=1)
Sanitize_FirstRun(s) ==
    IF s = <<>> THEN <<>>
    ELSE LET bad == {i \in 1..Len(s) : ~IsWordChar(s[i])}
         IN  IF bad = {} THEN s
             ELSE LET k == CHOOSE i \in bad : \A j \in bad : i <= j
                  IN  SubSeq(s, 1, k - 1) \o DropRun(SubSeq(s, k, Len(s)))

\* re.sub("[^A-Za-z0-9_]+", "", table_name)
RECURSIVE Sanitize(_)
Sanitize(s) ==
    IF s = <<>> THEN <<>>
    ELSE IF IsWordChar(Head(s)) THEN <<Head(s)>> \o Sanitize(Tail(s))
    ELSE Sanitize(DropRun(Tail(s)))

\* str(path): the segments joined by the platform's separator
PathStr(p) == Join(p, os_sep)

\* str(path).split("\\")[-1].split(".")[0]
DeriveTableName(p) ==
    LET pieces == Split(PathStr(p), "\\")
    IN  Split(pieces[Len(pieces)], ".")[1]

\* upload_file: if not table_name: table_name = <derived>
FileTableName(tn, p) == IF tn = <<>> THEN DeriveTableName(p) ELSE tn

\* Variant: the test reads table_name, which the first file has set
FolderTableName_Sticky(tname, tn, p) ==
    IF tn = <<>> THEN DeriveTableName(p) ELSE tn

\* upload_folder: if t_name is False: table_name = <derived>
FolderTableName(tname, tn, p) == IF tname = FALSE THEN DeriveTableName(p) ELSE tn

\* Variant: the delimiter is not looked at
GlobExt_CsvOnly(dl) == "*.csv"

\* upload_folder: ext = "*" if delim != "," else "*.csv"
GlobExt(dl) == IF dl # "," THEN "*" ELSE "*.csv"

EndsWith(s, suffix) ==
    /\ Len(s) >= Len(suffix)
    /\ SubSeq(s, Len(s) - Len(suffix) + 1, Len(s)) = suffix

\* Path.glob(ext) on one entry name
GlobMatches(name, ext) == ext = "*" \/ EndsWith(name, <<".">> \o Str_csv)

\* input_files: the matching entries of the folder, in listing order
GlobFiles(fd, listing, ext) ==
    LET sel == SelectSeq(listing, LAMBDA n : GlobMatches(n, ext))
    IN  [i \in 1..Len(sel) |-> fd \o <<sel[i]>>]

RECURSIVE SumLen(_)
SumLen(evs) == IF evs = <<>> THEN 0 ELSE Head(evs).len + SumLen(Tail(evs))

\* len(json.dumps(events)): "[" + ", ".join(rows) + "]"
JsonDumpsLen(evs) ==
    IF evs = <<>> THEN 2 ELSE 2 + SumLen(evs) + 2 * (Len(evs) - 1)

\* sys.getsizeof(json.dumps(events)); json.dumps emits ASCII only
GetSizeOf(evs) == StrOverhead + JsonDumpsLen(evs)

\* Variants of the size test: a 20 MiB threshold, and >= in place of >
Overflows_20MiB(evs) == GetSizeOf(evs) > 20971520
Overflows_AtLeast(evs) == GetSizeOf(evs) >= Ceiling
Overflows_Never(evs) == FALSE

\* if sys.getsizeof(json.dumps(events)) > 26214400
Overflows(evs) == GetSizeOf(evs) > Ceiling

\* Variant: the post after the loop is unconditional
HasResidual_Always(evs) == TRUE

\* if events: (the test before the post that follows the loop)
HasResidual(evs) == evs # <<>>

\* Variant: the list keeps the row that overflowed
EventsAfterFlush_KeepLast(evs) == <<evs[Len(evs)]>>

\* events = [] after an overflow flush
EventsAfterFlush(evs) == <<>>

B64Alphabet == UpperCase \cup LowerCase \cup Digits \cup {"+", "/"}

\* binascii.a2b_base64 (non-strict): TRUE iff decoding raises no binascii.Error
RECURSIVE B64Scan(_, _, _)
B64Scan(s, quad_pos, pads) ==
    IF s = <<>> THEN quad_pos = 0
    ELSE IF Head(s) = "="
         THEN IF quad_pos >= 2 /\ quad_pos + pads + 1 >= 4 THEN TRUE
              ELSE B64Scan(Tail(s), quad_pos,
                           IF quad_pos >= 2 THEN pads + 1 ELSE pads)
    ELSE IF Head(s) \notin B64Alphabet THEN B64Scan(Tail(s), quad_pos, pads)
    ELSE B64Scan(Tail(s), (quad_pos + 1) % 4, 0)

\* Variant: the secret is used without being decoded
B64DecodeOk_Always(secret) == TRUE

\* base64.b64decode(self.workspace_secret) in _build_signature
B64DecodeOk(secret) == B64Scan(secret, 0, 0)

\* binascii.a2b_base64 (non-strict): the base64 digits the decoder consumes;
\* the decoded bytes are a function of them
RECURSIVE B64Consumed(_, _, _)
B64Consumed(s, quad_pos, pads) ==
    IF s = <<>> THEN <<>>
    ELSE IF Head(s) = "="
         THEN IF quad_pos >= 2 /\ quad_pos + pads + 1 >= 4 THEN <<>>
              ELSE B64Consumed(Tail(s), quad_pos,
                               IF quad_pos >= 2 THEN pads + 1 ELSE pads)
    ELSE IF Head(s) \notin B64Alphabet THEN B64Consumed(Tail(s), quad_pos, pads)
    ELSE <<Head(s)>> \o B64Consumed(Tail(s), (quad_pos + 1) % 4, 0)

\* decoded_key
DecodedKey(secret) == B64Consumed(secret, 0, 0)

DecDigits == <<"0","1","2","3","4","5","6","7","8","9">>

\* str(content_length) for content_length >= 0
RECURSIVE IntStr(_)
IntStr(n) ==
    IF n < 10 THEN <<DecDigits[n + 1]>>
    ELSE IntStr(n \div 10) \o <<DecDigits[(n % 10) + 1]>>

\* Variant: the date is left out of x_headers
StringToHash_NoDate(date, content_length, method, content_type, resource) ==
    method \o <<"\n">> \o IntStr(content_length) \o <<"\n">> \o content_type
        \o <<"\n">> \o Str_x_ms_date \o <<"\n">> \o resource

\* string_to_hash, with x_headers = "x-ms-date:" + date
StringToHash(date, content_length, method, content_type, resource) ==
    method \o <<"\n">> \o IntStr(content_length) \o <<"\n">> \o content_type
        \o <<"\n">> \o (Str_x_ms_date \o date) \o <<"\n">> \o resource

----------------------------------------------------------------------------
(* Exceptions *)

NoError == [exc |-> "None", title |-> "", code |-> 0]

BinasciiError == [exc |-> "binascii.Error", title |-> "", code |-> 0]

ConnectError ==
    [exc |-> "MsticpyConnectionError",
     title |-> "Unable to connect to Workspace", code |-> 0]

\* the message of this one holds response.status_code
UploadFailedError(status) ==
    [exc |-> "MsticpyConnectionError",
     title |-> "Data Upload Failed", code |-> status]

\* Variant: 299 is taken for a failure
RaisedByResponse_Below299(resp) ==
    IF ~resp.connected THEN ConnectError
    ELSE IF resp.status < 200 \/ resp.status >= 299
         THEN UploadFailedError(resp.status)
    ELSE NoError

NoAuthorization ==
    [scheme |-> "", workspace |-> <<>>, key |-> <<>>, msg |-> <<>>]

\* f"SharedKey {self.workspace}:{encoded_hash}".  The HMAC-SHA256 digest is
\* represented by its two arguments, the decoded key and the bytes hashed:
\* equal arguments give equal digests.
Authorization(secret, string_to_hash) ==
    [scheme |-> "SharedKey", workspace |-> Str_workspace,
     key |-> DecodedKey(secret), msg |-> string_to_hash]

\* _build_signature(date, content_length, method, content_type, resource) of an
\* uploader whose workspace_secret is secret: the arguments, the string built,
\* what was raised and what was returned
BuildSignatureCall(secret, date, content_length, method, content_type, resource) ==
    LET sth ==
            StringToHash(date, content_length, method, content_type, resource)
    IN  [secret |-> secret, date |-> date, content_length |-> content_length,
         method |-> method, content_type |-> content_type,
         resource |-> resource, string_to_hash |-> sth,
         raised |-> IF B64DecodeOk(secret) THEN NoError ELSE BinasciiError,
         authorization |-> IF B64DecodeOk(secret)
                           THEN Authorization(secret, sth)
                           ELSE NoAuthorization]

\* the try/except and the status test at the end of _post_data
RaisedByResponse(resp) ==
    IF ~resp.connected THEN ConnectError
    ELSE IF resp.status < 200 \/ resp.status > 299
         THEN UploadFailedError(resp.status)
    ELSE NoError

\* _post_data(body, table_name) meeting resp: the call's log entry, what it
\* met, and what it raised
PostData(body, tn, trigger, resp) ==
    LET signed == B64DecodeOk(workspace_secret)
        exc == IF ~signed THEN BinasciiError ELSE RaisedByResponse(resp)
    IN  [entry |-> [unit |-> unit, log_type |-> Sanitize(tn), arg |-> tn,
                    body |-> body, length |-> JsonDumpsLen(body),
                    size |-> GetSizeOf(body),
                    trigger |-> trigger, sent |-> signed,
                    ok |-> exc = NoError],
         last |-> [called |-> TRUE, sent |-> signed,
                   connected |-> signed /\ resp.connected,
                   status |-> IF signed /\ resp.connected THEN resp.status ELSE 0,
                   raised |-> exc],
         exc |-> exc]

\* Variant: the exception is swallowed and the upload goes on
PcAfterPost_Swallow(exc) == "iter"

\* where upload_df goes on after a _post_data call: nothing catches what
\* _post_data raises
PcAfterPost(exc) == IF exc = NoError THEN "iter" ELSE "raised"

----------------------------------------------------------------------------
(* Initial state: an uploader has been constructed, nothing called yet *)

InitWith(secrets) ==
    /\ os_sep \in {"/", "\\"}
    /\ workspace_secret \in secrets
    /\ pc = "idle"
    /\ mode = "none"
    /\ table_arg = <<>>
    /\ table_name = <<>>
    /\ t_name = FALSE
    /\ delim = ","
    /\ folder = <<>>
    /\ input_files = <<>>
    /\ fileIdx = 0
    /\ path = <<>>
    /\ data = <<>>
    /\ events = <<>>
    /\ unit = 0
    /\ posts = <<>>
    /\ last = [called |-> FALSE, sent |-> FALSE, connected |-> FALSE,
               status |-> 0, raised |-> NoError]
    /\ error = NoError
    /\ progress = [total |-> 0, n |-> 0, closed |-> FALSE]
    /\ nread = 0
    /\ sig_calls = <<>>

Init == InitWith(Secrets)

\* an uploader constructed with a secret that is not well-formed base64
MalformedInit == InitWith(MalformedSecrets)

----------------------------------------------------------------------------
(* Operations *)

\* upload_df(data, table_name) called directly: events = [] and enter the loop
UploadDf ==
    /\ pc = "idle"
    /\ \E tn \in TableNames :
          /\ table_arg' = tn
          /\ table_name' = tn
    /\ mode' = "df"
    /\ unit' = unit + 1
    /\ data' = <<>>
    /\ events' = <<>>
    /\ pc' = "iter"
    /\ UNCHANGED <<os_sep, workspace_secret, t_name, delim, folder,
                   input_files, fileIdx, path, posts, last, error, progress,
                   nread, sig_calls>>

\* upload_file(file_path, table_name, delim) up to the loop of the upload_df
\* it calls
UploadFile ==
    /\ pc = "idle"
    /\ \E fp \in FilePaths, tn \in TableNames :
          /\ path' = fp
          /\ table_arg' = tn
          /\ table_name' = FileTableName(tn, fp)
    /\ mode' = "file"
    /\ unit' = unit + 1
    /\ data' = <<>>
    /\ events' = <<>>
    /\ pc' = "iter"
    /\ UNCHANGED <<os_sep, workspace_secret, t_name, delim, folder,
                   input_files, fileIdx, posts, last, error, progress, nread,
                   sig_calls>>

\* upload_folder(folder_path, table_name, delim) up to the creation of the
\* progress bar
UploadFolder ==
    /\ pc = "idle"
    /\ \E fd \in Folders, listing \in Listings,
          tn \in FolderTableNames, dl \in Delims :
          /\ folder' = listing
          /\ delim' = dl
          /\ table_arg' = tn
          /\ table_name' = tn
          /\ t_name' = (tn # <<>>)
          /\ input_files' = GlobFiles(fd, listing, GlobExt(dl))
          /\ progress' = [total |-> Len(GlobFiles(fd, listing, GlobExt(dl))),
                          n |-> 0, closed |-> FALSE]
    /\ mode' = "folder"
    /\ fileIdx' = 0
    /\ pc' = "next_file"
    /\ UNCHANGED <<os_sep, workspace_secret, path, data, events, unit, posts,
                   last, error, nread, sig_calls>>

\* one iteration of upload_folder's loop up to the loop of the upload_df it
\* calls: read the file, choose the table name
FolderNextFile ==
    /\ pc = "next_file"
    /\ fileIdx < Len(input_files)
    /\ path' = input_files[fileIdx + 1]
    /\ table_name' = FolderTableName(t_name, table_name, input_files[fileIdx + 1])
    /\ unit' = unit + 1
    /\ data' = <<>>
    /\ events' = <<>>
    /\ pc' = "iter"
    /\ UNCHANGED <<os_sep, workspace_secret, mode, table_arg, t_name, delim,
                   folder, input_files, fileIdx, posts, last, error, progress,
                   nread, sig_calls>>

\* upload_folder after its loop: progress.close()
FolderClose ==
    /\ pc = "next_file"
    /\ fileIdx = Len(input_files)
    /\ progress' = [progress EXCEPT !.closed = TRUE]
    /\ pc' = "done"
    /\ UNCHANGED <<os_sep, workspace_secret, mode, table_arg, table_name,
                   t_name, delim, folder, input_files, fileIdx, path, data,
                   events, unit, posts, last, error, nread, sig_calls>>

\* one iteration of upload_df's loop: iterrows yields a row, the row is
\* appended, the size is tested, and on overflow the chunk is posted and the
\* list emptied
IterRow ==
    /\ pc = "iter"
    /\ nread < MaxRecords
    /\ nread' = nread + 1
    /\ \E sz \in RecSizes :
          LET row == [id |-> Len(data) + 1, len |-> sz]
              evs == Append(events, row)
          IN  /\ data' = Append(data, row)
              /\ IF Overflows(evs)
                 THEN \E resp \in Responses :
                         LET r == PostData(evs, table_name, "overflow", resp)
                         IN  /\ posts' = Append(posts, r.entry)
                             /\ last' = r.last
                             /\ error' = r.exc
                             /\ pc' = PcAfterPost(r.exc)
                             /\ events' = IF PcAfterPost(r.exc) = "iter"
                                          THEN EventsAfterFlush(evs) ELSE evs
                 ELSE /\ events' = evs
                      /\ UNCHANGED <<posts, last, error, pc>>
    /\ UNCHANGED <<os_sep, workspace_secret, mode, table_arg, table_name,
                   t_name, delim, folder, input_files, fileIdx, path, unit,
                   progress, sig_calls>>

\* Variant: the bar is given the count of files done, not the increment
ProgressUpdate_Absolute(bar, done) == [bar EXCEPT !.n = @ + done + 1]

\* progress.update(1), after done files were uploaded before this one
ProgressUpdate(bar, done) == [bar EXCEPT !.n = @ + 1]

\* what follows a normal return of upload_df in its caller
AfterUploadDf ==
    IF mode = "folder"
    THEN /\ progress' = ProgressUpdate(progress, fileIdx)
         /\ fileIdx' = fileIdx + 1
         /\ pc' = "next_file"
    ELSE /\ pc' = "done"
         /\ UNCHANGED <<progress, fileIdx>>

\* upload_df once iterrows is exhausted: post what is left, return; then the
\* caller's next statement (upload_folder: progress.update(1))
UploadDfFinish ==
    /\ pc = "iter"
    /\ IF HasResidual(events)
       THEN \E resp \in Responses :
               LET r == PostData(events, table_name, "final", resp)
               IN  /\ posts' = Append(posts, r.entry)
                   /\ last' = r.last
                   /\ error' = r.exc
                   /\ IF PcAfterPost(r.exc) = "iter"
                      THEN AfterUploadDf
                      ELSE /\ pc' = PcAfterPost(r.exc)
                           /\ UNCHANGED <<progress, fileIdx>>
       ELSE /\ AfterUploadDf
            /\ UNCHANGED <<posts, last, error>>
    /\ UNCHANGED <<os_sep, workspace_secret, mode, table_arg, table_name,
                   t_name, delim, folder, input_files, path, data, events,
                   unit, nread, sig_calls>>

\* LAUploader(workspace, workspace_secret): another uploader is constructed
Construct ==
    /\ pc = "idle"
    /\ workspace_secret' \in Secrets \cup MalformedSecrets
    /\ UNCHANGED <<os_sep, pc, mode, table_arg, table_name, t_name, delim,
                   folder, input_files, fileIdx, path, data, events, unit,
                   posts, last, error, progress, nread, sig_calls>>

\* _build_signature called on the uploader; the last two calls are kept
BuildSignature ==
    /\ pc = "idle"
    /\ \E date \in SigDates, content_length \in SigLengths,
          method \in SigMethods, content_type \in SigContentTypes,
          resource \in SigResources :
          LET call == BuildSignatureCall(workspace_secret, date, content_length,
                                         method, content_type, resource)
          IN  sig_calls' = IF sig_calls = <<>> THEN <<call>>
                           ELSE <<sig_calls[Len(sig_calls)], call>>
    /\ UNCHANGED <<os_sep, workspace_secret, pc, mode, table_arg, table_name,
                   t_name, delim, folder, input_files, fileIdx, path, data,
                   events, unit, posts, last, error, progress, nread>>

Next ==
    \/ UploadDf
    \/ UploadFile
    \/ UploadFolder
    \/ FolderNextFile
    \/ FolderClose
    \/ IterRow
    \/ UploadDfFinish

Spec == Init /\ [][Next]_vars

\* uploaders being constructed and their _build_signature called
SigNext ==
    \/ Construct
    \/ BuildSignature

SigSpec == Init /\ [][SigNext]_vars

\* uploads by an uploader whose secret is not well-formed base64
MalformedSpec == MalformedInit /\ [][Next]_vars

----------------------------------------------------------------------------
(* Properties *)

\* the _post_data calls of the running upload_df
UnitPosts == SelectSeq(posts, LAMBDA e : e.unit = unit)

RECURSIVE ConcatBodies(_)
ConcatBodies(ps) ==
    IF ps = <<>> THEN <<>> ELSE Head(ps).body \o ConcatBodies(Tail(ps))

AllOk(ps) == \A i \in 1..Len(ps) : ps[i].ok

\* upload_df has returned normally for the rows in data
DfReturned == unit > 0 /\ pc \in {"next_file", "done"}

\* C1: when every POST of an upload_df succeeds, the posted batches,
\* concatenated in POST order, are exactly the input rows in input order; and
\* while the loop runs, the posted batches followed by the accumulated events
\* are exactly the rows consumed so far.
C1_BatchesConcatToInput ==
    /\ (pc = "iter" /\ AllOk(UnitPosts))
          => ConcatBodies(UnitPosts) \o events = data
    /\ (DfReturned /\ AllOk(UnitPosts)) => ConcatBodies(UnitPosts) = data

C1_Witness ==
    /\ pc = "done"
    /\ mode = "df"
    /\ Len(data) = 3
    /\ Len(posts) = 2
    /\ AllOk(posts)
    /\ posts[1].trigger = "overflow"
    /\ posts[2].trigger = "final"

\* three rows of 10 MiB each have been uploaded by upload_df without error
ThreeTenMiBUploaded ==
    /\ pc = "done"
    /\ mode = "df"
    /\ Len(data) = 3
    /\ \A i \in 1..3 : data[i].len = 10485760
    /\ AllOk(posts)

\* C2 (as claimed): three 10 MiB rows give exactly 2 POSTs, rows 1-2 flushed
\* on overflow and row 3 at end-of-source.
C2_Original_TwoPosts ==
    ThreeTenMiBUploaded =>
        /\ Len(posts) = 2
        /\ posts[1].body = SubSeq(data, 1, 2)
        /\ posts[1].trigger = "overflow"
        /\ posts[2].body = SubSeq(data, 3, 3)
        /\ posts[2].trigger = "final"

\* C2 (amended): three 10 MiB rows give exactly 1 POST: two rows measure
\* 20,971,573 <= 26,214,400, the third pushes the size over the threshold and
\* all three rows are flushed together; nothing is left for end-of-source.
C2_OnePostOfThree ==
    ThreeTenMiBUploaded =>
        /\ Len(posts) = 1
        /\ posts[1].body = data
        /\ posts[1].trigger = "overflow"
        /\ posts[1].length = 3 * 10485760 + 6

C2_Witness == ThreeTenMiBUploaded /\ Len(posts) = 1

\* C3 (as claimed): every payload handed to _post_data is at most 26,214,400
\* bytes long.
C3_Original_PayloadWithinCeiling ==
    \A i \in 1..Len(posts) : posts[i].length <= 26214400

\* C3 (amended): a payload posted at end-of-source measures at most 26,214,400
\* (sys.getsizeof of its JSON text); a payload flushed inside the loop always
\* measures more than 26,214,400, and measures at most 26,214,400 without its
\* last row.
C3_PayloadSizes ==
    \A i \in 1..Len(posts) :
        LET p == posts[i]
            n == Len(p.body)
            rest == SubSeq(p.body, 1, n - 1)
        IN  /\ n >= 1
            /\ p.size = 49 + 2 + SumLen(p.body) + 2 * (n - 1)
            /\ p.trigger = "final" => p.size <= 26214400
            /\ p.trigger = "overflow" =>
                  /\ p.size > 26214400
                  /\ 49 + JsonDumpsLen(rest) <= 26214400

\* a single row larger than the threshold has been posted alone, and a final
\* payload exactly at the threshold has been posted
C3_Witness ==
    /\ Len(posts) = 2
    /\ posts[1].trigger = "overflow"
    /\ Len(posts[1].body) = 1
    /\ posts[1].length > 26214400
    /\ posts[2].trigger = "final"
    /\ posts[2].size = 26214400

\* C4: once a _post_data call has failed, the upload issues no further one:
\* only the last call of the log can be a failed one, the operation has then
\* stopped with that call's exception, the failed batch is not posted again,
\* and from then on the log never grows.
C4_FailFast ==
    /\ [](/\ \A i \in 1..(Len(posts) - 1) : posts[i].ok
          /\ (posts # <<>> /\ ~posts[Len(posts)].ok) =>
                /\ pc = "raised"
                /\ error = last.raised
                /\ error # NoError
          /\ pc = "raised" => (posts # <<>> /\ ~posts[Len(posts)].ok))
    /\ [][pc = "raised" => posts' = posts]_vars

\* a POST of the first file of a two-file folder failed on an overflow flush
C4_Witness ==
    /\ pc = "raised"
    /\ mode = "folder"
    /\ Len(input_files) = 2
    /\ fileIdx = 0
    /\ Len(posts) = 2
    /\ posts[2].trigger = "overflow"
    /\ last.status = 403

C6_ResidualPostedOnce ==
    /\ [](\A i \in 1..Len(posts) : posts[i].body # <<>>)
    /\ []((pc # "iter" /\ unit > 0 /\ data = <<>>) => UnitPosts = <<>>)
    /\ [][(pc = "iter" /\ pc' # "iter" /\ data' = data) =>
             IF events = <<>>
             THEN posts' = posts
             ELSE /\ Len(posts') = Len(posts) + 1
                  /\ SubSeq(posts', 1, Len(posts)) = posts
                  /\ posts'[Len(posts')].body = events
                  /\ posts'[Len(posts')].trigger = "final"]_vars

\* upload_df returned after its last row had triggered an overflow flush:
\* one POST, none at end-of-source
C6_Witness ==
    /\ pc = "done"
    /\ mode = "df"
    /\ Len(data) = 2
    /\ events = <<>>
    /\ Len(posts) = 1
    /\ posts[1].trigger = "overflow"

C8_FolderTableNames ==
    mode = "folder" =>
        \A i \in 1..Len(posts) :
            /\ posts[i].unit \in 1..Len(input_files)
            /\ table_arg # <<>> =>
                  /\ posts[i].arg = table_arg
                  /\ posts[i].log_type = Sanitize(table_arg)
            /\ table_arg = <<>> =>
                  /\ posts[i].arg = DeriveTableName(input_files[posts[i].unit])
                  /\ posts[i].log_type =
                        Sanitize(DeriveTableName(input_files[posts[i].unit]))

\* two files of a folder uploaded with no table name, under different names
C8_Witness ==
    /\ mode = "folder"
    /\ table_arg = <<>>
    /\ pc = "done"
    /\ Len(posts) = 2
    /\ posts[1].unit = 1
    /\ posts[2].unit = 2
    /\ posts[1].log_type # posts[2].log_type

WordChars == UpperCase \cup LowerCase \cup Digits \cup {"_"}

\* C9: the Log-Type of every POST holds only ASCII letters, digits and
\* underscores; it is the table name's characters of that kind in their
\* order; sanitizing it again leaves it unchanged; "My-Table!1" gives
\* "MyTable1".
C9_LogTypeSanitized ==
    \A i \in 1..Len(posts) :
        LET p == posts[i]
        IN  /\ \A k \in 1..Len(p.log_type) : p.log_type[k] \in WordChars
            /\ p.log_type = SelectSeq(p.arg, LAMBDA c : c \in WordChars)
            /\ Sanitize(p.log_type) = p.log_type
            /\ p.arg = Str_My_Table_1 => p.log_type = Str_MyTable1

\* a POST under "MyTable1" for the table name "My-Table!1"
C9_Witness ==
    /\ posts # <<>>
    /\ posts[1].arg = Str_My_Table_1
    /\ posts[1].log_type = Str_MyTable1
    /\ posts[1].sent

\* the name with its extension stripped (pathlib's stem)
Stem(name) ==
    LET dots == {i \in 2..Len(name) : name[i] = "."}
    IN  IF dots = {} THEN name
        ELSE SubSeq(name, 1, (CHOOSE i \in dots : \A j \in dots : j <= i) - 1)

\* C10 (as claimed): a derived table name is the final segment of the file
\* path with its extension stripped, and holds no path separator.
C10_DerivedIsBaseName ==
    (mode \in {"file", "folder"} /\ unit > 0 /\ table_arg = <<>>) =>
        /\ table_name = Stem(path[Len(path)])
        /\ \A k \in 1..Len(table_name) : table_name[k] \notin {"/", "\\"}

\* two recorded _build_signature calls, both of which returned
SigPairs ==
    {<<a, b>> \in (1..Len(sig_calls)) \X (1..Len(sig_calls)) :
        sig_calls[a].raised = NoError /\ sig_calls[b].raised = NoError}

SigInputs(c) ==
    <<c.secret, c.date, c.content_length, c.method, c.content_type, c.resource>>

\* the number of components in which two input tuples differ
SigDiff(x, y) == Cardinality({k \in 1..6 : x[k] # y[k]})

\* C11 (as claimed): the same input tuple gives the same authorization, and
\* two tuples (secret, date, content length, method, content type, resource)
\* that differ in one component give different strings to sign and different
\* authorizations.
C11_Original_AnyComponent ==
    \A p \in SigPairs :
        LET a == sig_calls[p[1]]
            b == sig_calls[p[2]]
        IN  /\ SigInputs(a) = SigInputs(b) => a.authorization = b.authorization
            /\ SigDiff(SigInputs(a), SigInputs(b)) = 1 =>
                  /\ a.string_to_hash # b.string_to_hash
                  /\ a.authorization # b.authorization

\* C11 (amended): the same input tuple gives the same string to sign and the
\* same authorization; the string to sign is method, content length, content
\* type, "x-ms-date:" + date and resource joined by newlines in that order,
\* with no trailing newline; two tuples that differ in exactly one of these
\* five give different strings to sign; the secret is no part of the string to
\* sign, and two secrets that decode to the same key give the same
\* authorization.
C11_SignatureInputs ==
    /\ \A i \in 1..Len(sig_calls) :
          LET c == sig_calls[i]
          IN  /\ Split(c.string_to_hash, "\n") =
                    <<c.method, IntStr(c.content_length), c.content_type,
                      Str_x_ms_date \o c.date, c.resource>>
              /\ c.string_to_hash[Len(c.string_to_hash)] # "\n"
    /\ \A p \in SigPairs :
          LET a == sig_calls[p[1]]
              b == sig_calls[p[2]]
          IN  /\ SigInputs(a) = SigInputs(b) =>
                    /\ a.string_to_hash = b.string_to_hash
                    /\ a.authorization = b.authorization
              /\ (a.secret = b.secret
                    /\ SigDiff(SigInputs(a), SigInputs(b)) = 1) =>
                    a.string_to_hash # b.string_to_hash
              /\ Tail(SigInputs(a)) = Tail(SigInputs(b)) =>
                    /\ a.string_to_hash = b.string_to_hash
                    /\ DecodedKey(a.secret) = DecodedKey(b.secret) =>
                          a.authorization = b.authorization

\* two calls that differ in the date alone, and so in the string to sign
C11_Witness ==
    /\ Len(sig_calls) = 2
    /\ <<1, 2>> \in SigPairs
    /\ sig_calls[1].date # sig_calls[2].date
    /\ SigDiff(SigInputs(sig_calls[1]), SigInputs(sig_calls[2])) = 1
    /\ sig_calls[1].string_to_hash # sig_calls[2].string_to_hash

\* C12: in a folder upload the progress counter never decreases and never
\* exceeds the total, which is the number of enumerated files; a step raises
\* it by exactly one, and only the step in which upload_df returns after all
\* the batches of the file were posted successfully; it equals the total when
\* the upload has returned normally, and the number of files uploaded in full
\* when the upload has been aborted.
C12_ProgressCounter ==
    /\ [](mode = "folder" =>
            /\ progress.total = Len(input_files)
            /\ progress.n >= 0
            /\ progress.n <= progress.total
            /\ pc = "done" => progress.n = progress.total
            /\ pc = "raised" => progress.n = unit - 1
            /\ pc = "iter" => progress.n = unit - 1)
    /\ [][\/ progress'.n = progress.n
          \/ /\ progress'.n = progress.n + 1
             /\ mode = "folder"
             /\ pc = "iter"
             /\ pc' = "next_file"
             /\ unit' = unit
             /\ AllOk(UnitPosts')
             /\ ConcatBodies(UnitPosts') = data]_vars

\* a folder upload aborted in its second file, after one file was uploaded
C12_Witness ==
    /\ mode = "folder"
    /\ pc = "raised"
    /\ progress.total = 2
    /\ progress.n = 1
    /\ unit = 2
    /\ Len(posts) = 2
    /\ posts[1].unit = 1
    /\ posts[1].ok

\* the base64 digits of a secret and the number of its "=" characters
SecretDigits(s) == SelectSeq(s, LAMBDA c : c \in B64Alphabet)
SecretPads(s) == Len(SelectSeq(s, LAMBDA c : c = "="))

\* every "=" of the secret stands at its end
PadsTrailing(s) == \A i \in 1..Len(s) : s[i] = "=" => i > Len(s) - SecretPads(s)

\* RFC 4648 base64: whole groups of four, digits only, then at most two "="
StrictBase64(s) ==
    /\ Len(s) % 4 = 0
    /\ SecretPads(s) <= 2
    /\ Len(SecretDigits(s)) + SecretPads(s) = Len(s)
    /\ PadsTrailing(s)

\* no POST request has been sent, and the one _post_data call made, if any,
\* has ended the operation with its exception
NothingSent ==
    /\ Len(posts) <= 1
    /\ \A i \in 1..Len(posts) : ~posts[i].sent /\ ~posts[i].ok
    /\ ~last.connected
    /\ posts # <<>> => (pc = "raised" /\ error # NoError /\ error = last.raised)

IsCsvName(n) ==
    Len(n) >= 4 /\ SubSeq(n, Len(n) - 3, Len(n)) = <<".","c","s","v">>

\* the entries of the folder the claim has selected
SelectedEntries ==
    IF delim = "," THEN SelectSeq(folder, IsCsvName) ELSE folder

\* C14: a folder upload with the default delimiter enumerates exactly the
\* entries whose name ends in .csv, with another delimiter every entry, in
\* listing order; the work units are these entries, one unit each in that
\* order, all of them when the upload returns normally; every POST belongs to
\* a selected entry.
C14_FolderEnumeration ==
    /\ [](mode = "folder" =>
            /\ Len(input_files) = Len(SelectedEntries)
            /\ \A i \in 1..Len(input_files) :
                  input_files[i][Len(input_files[i])] = SelectedEntries[i]
            /\ unit <= Len(input_files)
            /\ unit > 0 => path = input_files[unit]
            /\ pc = "done" => unit = Len(input_files)
            /\ \A i \in 1..Len(posts) :
                  /\ posts[i].unit \in 1..Len(SelectedEntries)
                  /\ delim = "," => IsCsvName(SelectedEntries[posts[i].unit]))
    /\ [][mode' = "folder" =>
            \/ unit' = unit
            \/ unit' = unit + 1 /\ pc = "next_file" /\ fileIdx = unit]_vars

\* with a tab delimiter notes.txt and hosts.csv were both uploaded
C14_Witness ==
    /\ mode = "folder"
    /\ delim # ","
    /\ folder = <<Str_notes_txt, Str_hosts_csv>>
    /\ pc = "done"
    /\ unit = 2
    /\ Len(posts) = 2
    /\ posts[1].unit = 1
    /\ posts[2].unit = 2

====
